---- MODULE Spec2Model ----
(***************************************************************************)
(* Session / tool-dispatch core of puppeteer-mcp-server.                   *)
(*                                                                         *)
(* Two classes implement the same dispatcher: PuppeteerMCPServer (stdio)   *)
(* and PuppeteerHTTPMCPServer (HTTP/SSE).  Each holds one browser handle   *)
(* and one page handle and maps a CallTool request to one async method.    *)
(* An async method runs to its next await in one step; the awaited engine  *)
(* call then completes (or rejects) in a later step.                       *)
(***************************************************************************)
EXTENDS Integers, Sequences, FiniteSets, TLC

VARIABLES
    variant,    \* "stdio" (PuppeteerMCPServer) or "http" (PuppeteerHTTPMCPServer)
    nodeEnv,    \* process.env.NODE_ENV
    browser,    \* this.browser: 0 is null, otherwise a browser id
    page,       \* this.page: 0 is null, otherwise a page id
    browsers,   \* engine: browsers[b] is "open" or "closed", for every browser ever launched
    pages,      \* engine: pages[g] is the browser that owns page g
    pc,         \* pc[p]: where invocation p is suspended
    req,        \* req[p]: the CallTool request, with the handles it found
    loc,        \* loc[p]: locals of the suspended method (options, selector, ...)
    calls,      \* calls[p]: the engine calls of the invocation, in order
    out,        \* out[p]: what the handler settled with (envelopes or a rejection)
    launches,   \* how many launch invocations completed in a row, and the browsers they opened
    lastClosed, \* the invocation before this one was a close that returned its confirmation
    rt,         \* progress through launch, navigate, screenshot, close, close, get_text
    signal      \* the SIGINT listener: not run, awaiting cleanup, or the process ended

vars == <<variant, nodeEnv, browser, page, browsers, pages, pc, req, loc, calls, out, launches, lastClosed, rt, signal>>

----------------------------------------------------------------------------
(* Bounds of the model.                                                     *)

MaxBrowsers == 3
MaxPages == 3

\* The same, for the runs with two invocations in flight.
MaxRaceBrowsers == 2
MaxRacePages == 1

Procs == {1, 2}
SeqProcs == {1}

----------------------------------------------------------------------------
(* JavaScript values of the argument mapping.                               *)

Undef == [t |-> "undefined", b |-> FALSE, n |-> 0, s |-> ""]
Bool(x) == [t |-> "boolean", b |-> x, n |-> 0, s |-> ""]
Num(x) == [t |-> "number", b |-> FALSE, n |-> x, s |-> ""]
Str(x) == [t |-> "string", b |-> FALSE, n |-> 0, s |-> x]
Obj == [t |-> "object", b |-> FALSE, n |-> 0, s |-> ""]

\* JavaScript truthiness: undefined, false, 0 and "" are falsy.
Truthy(v) ==
    CASE v.t = "undefined" -> FALSE
      [] v.t = "boolean" -> v.b
      [] v.t = "number" -> v.n # 0
      [] v.t = "string" -> v.s # ""
      [] OTHER -> TRUE

\* a ?? d
Coalesce(v, d) == IF v.t = "undefined" THEN d ELSE v

\* a || d
OrElse(v, d) == IF Truthy(v) THEN v ELSE d

BoolStr(x) == IF x THEN "true" ELSE "false"

\* request.params.arguments: absent, or a mapping. Every tool reads only its own keys.
NoArgs ==
    [present |-> FALSE, headless |-> Undef, viewport |-> Undef, width |-> Undef,
     height |-> Undef, url |-> Undef, waitUntil |-> Undef, fullPage |-> Undef,
     format |-> Undef, quality |-> Undef, selector |-> Undef, text |-> Undef,
     script |-> Undef]

EmptyArgs == [NoArgs EXCEPT !.present = TRUE]

----------------------------------------------------------------------------
(* zod schemas.  parse gives [ok, issues, value]; issues is the text of the *)
(* ZodError, one entry per failing field.                                   *)

Issue(path, message) == "{path: " \o path \o ", message: " \o message \o "}"

Char(s, i) == SubSeq(s, i, i)

Letters == {"a", "b", "c", "d", "e", "f", "g", "h", "i", "j", "k", "l", "m",
            "n", "o", "p", "q", "r", "s", "t", "u", "v", "w", "x", "y", "z"}

SchemeChars == Letters \cup {"0", "1", "2", "3", "4", "5", "6", "7", "8", "9", "+", "-", "."}

SpecialSchemes == {"http", "https", "ws", "wss", "ftp"}

\* Position of the first ":" of s, or 0.
Colon(s) ==
    IF \E i \in 1..Len(s) : Char(s, i) = ":"
    THEN CHOOSE i \in 1..Len(s) : Char(s, i) = ":" /\ \A j \in 1..(i - 1) : Char(s, j) # ":"
    ELSE 0

\* z.string().url(): the string parses as an absolute URL (new URL(s) does not throw):
\* a scheme, and for the special schemes a non-empty host after the slashes.
IsURL(s) ==
    LET c == Colon(s) IN
    /\ c > 1
    /\ Char(s, 1) \in Letters
    /\ \A j \in 2..(c - 1) : Char(s, j) \in SchemeChars
    /\ SubSeq(s, 1, c - 1) \in SpecialSchemes =>
          \E k \in (c + 1)..Len(s) :
              /\ Char(s, k) \notin {"/", "\\"}
              /\ \A j \in (c + 1)..(k - 1) : Char(s, j) \in {"/", "\\"}
              /\ Char(s, k) \notin {"?", "#", ":", " "}

WaitUntilValues == {"load", "domcontentloaded", "networkidle0", "networkidle2"}
FormatValues == {"png", "jpeg", "webp"}

StringIssues(path, v, required) ==
    CASE v.t = "undefined" -> IF required THEN <<Issue(path, "Required")>> ELSE <<>>
      [] v.t = "string" -> <<>>
      [] OTHER -> <<Issue(path, "Expected string, received " \o v.t)>>

UrlIssues(v) ==
    IF v.t = "string"
    THEN IF IsURL(v.s) THEN <<>> ELSE <<Issue("url", "Must be a valid URL")>>
    ELSE StringIssues("url", v, TRUE)

EnumIssues(path, v, allowed) ==
    CASE v.t = "undefined" -> <<>>
      [] v.t = "string" /\ v.s \in allowed -> <<>>
      [] OTHER -> <<Issue(path, "Invalid enum value")>>

BooleanIssues(path, v) ==
    CASE v.t \in {"undefined", "boolean"} -> <<>>
      [] OTHER -> <<Issue(path, "Expected boolean, received " \o v.t)>>

QualityIssues(v) ==
    CASE v.t = "undefined" -> <<>>
      [] v.t = "number" ->
            IF v.n < 0 THEN <<Issue("quality", "Number must be greater than or equal to 0")>>
            ELSE IF v.n > 100 THEN <<Issue("quality", "Number must be less than or equal to 100")>>
            ELSE <<>>
      [] OTHER -> <<Issue("quality", "Expected number, received " \o v.t)>>

\* z.object(...).parse(args): an absent mapping is one issue at the root.
ObjectParse(args, issues, value) ==
    IF ~args.present
    THEN [ok |-> FALSE, issues |-> <<Issue("", "Required")>>, value |-> NoArgs]
    ELSE [ok |-> issues = <<>>, issues |-> issues, value |-> value]

\* A faulty schema: url: z.string(), without .url().
NavigateSchemaAnyString(args) ==
    ObjectParse(args,
        StringIssues("url", args.url, TRUE)
            \o EnumIssues("waitUntil", args.waitUntil, WaitUntilValues),
        [EmptyArgs EXCEPT !.url = args.url,
                          !.waitUntil = Coalesce(args.waitUntil, Str("load"))])

NavigateSchema(args) ==
    ObjectParse(args,
        UrlIssues(args.url) \o EnumIssues("waitUntil", args.waitUntil, WaitUntilValues),
        [EmptyArgs EXCEPT !.url = args.url,
                          !.waitUntil = Coalesce(args.waitUntil, Str("load"))])

ScreenshotSchema(args) ==
    ObjectParse(args,
        BooleanIssues("fullPage", args.fullPage)
            \o EnumIssues("format", args.format, FormatValues)
            \o QualityIssues(args.quality),
        [EmptyArgs EXCEPT !.fullPage = Coalesce(args.fullPage, Bool(FALSE)),
                          !.format = Coalesce(args.format, Str("png")),
                          !.quality = args.quality])

GetTextSchema(args) ==
    ObjectParse(args, StringIssues("selector", args.selector, FALSE),
        [EmptyArgs EXCEPT !.selector = args.selector])

ClickSchema(args) ==
    ObjectParse(args, StringIssues("selector", args.selector, TRUE),
        [EmptyArgs EXCEPT !.selector = args.selector])

TypeSchema(args) ==
    ObjectParse(args,
        StringIssues("selector", args.selector, TRUE) \o StringIssues("text", args.text, TRUE),
        [EmptyArgs EXCEPT !.selector = args.selector, !.text = args.text])

EvaluateSchema(args) ==
    ObjectParse(args, StringIssues("script", args.script, TRUE),
        [EmptyArgs EXCEPT !.script = args.script])

RECURSIVE Join(_)
Join(ss) == IF ss = <<>> THEN "" ELSE IF Len(ss) = 1 THEN ss[1] ELSE ss[1] \o ", " \o Join(Tail(ss))

\* ZodError.message: the issues, serialised.
ZodMessage(issues) == "[" \o Join(issues) \o "]"

----------------------------------------------------------------------------
(* Response envelopes and the executor's catch boundary.                    *)

TextItem(s) == [type |-> "text", text |-> s, data |-> "", mimeType |-> ""]
ImageItem(d, m) == [type |-> "image", text |-> "", data |-> d, mimeType |-> m]

\* How an async method settles: it returns content, or it throws an Error.
Return(content) == [kind |-> "return", content |-> content, message |-> ""]
Throw(message) == [kind |-> "throw", content |-> <<>>, message |-> message]

ErrorEnvelope(message) == <<TextItem("Error: " \o message)>>

\* A faulty handler: no catch block, the rejection goes to the caller.
NoCatch(result) == result

\* try { return await this.method(args) } catch (error) { return { content: [...] } }
TryCatch(result) ==
    IF result.kind = "throw" THEN Return(ErrorEnvelope(result.message)) ELSE result

NotLaunchedMessage == "Browser not launched. Use puppeteer_launch first."
UnknownToolMessage(name) == "Unknown tool: " \o name
CaptureFailedMessage == "Failed to capture screenshot"
ElementNotFoundMessage(selector) == "Element not found: " \o selector
ArgsTypeErrorMessage == "Cannot read properties of undefined (reading 'headless')"
NullPageMessage == "Cannot read properties of null (reading 'evaluate')"
EngineMessage(op) == "engine " \o op \o " failed"

ClosedText == "Browser closed successfully"

\* `Browser launched successfully in ${args.headless ? 'headless' : 'headed'} mode`
LaunchedText(args) ==
    "Browser launched successfully in "
        \o (IF Truthy(args.headless) THEN "headless" ELSE "headed") \o " mode"

NavigatedText(url) == "Navigated to: " \o url

ScreenshotText(format, fullPage) ==
    "Screenshot taken (" \o format \o ", fullPage: " \o BoolStr(fullPage) \o ")"

\* selector ? `Text from ${selector}: ${text}` : `Page text: ${text}`
GetTextText(selector, text) ==
    IF Truthy(selector) THEN "Text from " \o selector.s \o ": " \o text
    ELSE "Page text: " \o text

ClickedText(selector) == "Clicked element: " \o selector
TypedText(text, selector) == "Typed \"" \o text \o "\" into " \o selector

\* JSON.stringify(result, null, 2) inside a template literal
JSONStringify(v) ==
    CASE v.t = "number" -> ToString(v.n)
      [] v.t = "boolean" -> BoolStr(v.b)
      [] v.t = "string" -> "\"" \o v.s \o "\""
      [] OTHER -> "undefined"

ScriptResultText(v) == "Script result: " \o JSONStringify(v)

----------------------------------------------------------------------------
(* Launch options.                                                          *)

ChromePaths ==
    <<"/Applications/Google Chrome.app/Contents/MacOS/Google Chrome",
      "/usr/bin/google-chrome",
      "/usr/bin/chromium-browser",
      "C:\\Program Files\\Google\\Chrome\\Application\\chrome.exe",
      "C:\\Program Files (x86)\\Google\\Chrome\\Application\\chrome.exe">>

\* A faulty discovery loop, without its break: the last existing path wins.
FindLastExecutable(existing) ==
    IF \E i \in 1..Len(ChromePaths) : ChromePaths[i] \in existing
    THEN ChromePaths[CHOOSE i \in 1..Len(ChromePaths) :
                        /\ ChromePaths[i] \in existing
                        /\ \A j \in (i + 1)..Len(ChromePaths) : ChromePaths[j] \notin existing]
    ELSE ""

\* for (const chromePath of chromePaths) if (fs.existsSync(chromePath)) { ...; break }
\* "" stands for executablePath left undefined.
FindExecutable(existing) ==
    IF \E i \in 1..Len(ChromePaths) : ChromePaths[i] \in existing
    THEN ChromePaths[CHOOSE i \in 1..Len(ChromePaths) :
                        /\ ChromePaths[i] \in existing
                        /\ \A j \in 1..(i - 1) : ChromePaths[j] \notin existing]
    ELSE ""

NoViewport == [kind |-> "unset", width |-> Undef, height |-> Undef]
ChromiumViewport == [kind |-> "chromium", width |-> Undef, height |-> Undef]

\* if (args.viewport) options.defaultViewport = { width: ... || 1280, height: ... || 720 }
WithViewport(options, args) ==
    IF Truthy(args.viewport)
    THEN [options EXCEPT !.defaultViewport =
            [kind |-> "args",
             width |-> OrElse(args.width, Num(1280)),
             height |-> OrElse(args.height, Num(720))]]
    ELSE options

NoOptions ==
    [headless |-> Undef, args |-> <<>>, executablePath |-> "", defaultViewport |-> NoViewport]

\* stdio: const options = { headless: args.headless ?? true }
StdioOptions(args) ==
    WithViewport([NoOptions EXCEPT !.headless = Coalesce(args.headless, Bool(TRUE))], args)

\* http, NODE_ENV === 'production': the chrome-aws-lambda bundle
HostedOptions(args) ==
    WithViewport(
        [headless |-> Coalesce(args.headless, Bool(TRUE)),
         args |-> <<"chromium.args", "--hide-scrollbars", "--disable-web-security">>,
         executablePath |-> "chromium.executablePath",
         defaultViewport |-> ChromiumViewport], args)

\* http, otherwise: a local Chrome if one exists, else the engine's default
LocalOptions(args, existing) ==
    WithViewport(
        [headless |-> Coalesce(args.headless, Bool(TRUE)),
         args |-> <<"--no-sandbox", "--disable-setuid-sandbox">>,
         executablePath |-> FindExecutable(existing),
         defaultViewport |-> NoViewport], args)

----------------------------------------------------------------------------
(* The browser engine (puppeteer), as far as the session sees it.           *)

Call(op, tgt, opts) == [op |-> op, tgt |-> tgt, opts |-> opts, res |-> "pending"]
NoOpts == [none |-> TRUE]

\* The log with its pending call settled / with one more call begun.
Ended(cs, res) == [cs EXCEPT ![Len(cs)].res = res]
Started(cs, c) == Append(cs, c)
Pending(p) == calls[p][Len(calls[p])]

OpenBrowsers == {b \in 1..Len(browsers) : browsers[b] = "open"}

\* A page answers only while its browser is open.
PageAlive(g) == browsers[pages[g]] = "open"

\* browser.close(): resolves with the browser closed, or rejects (closed or not).
\* On a browser already closed it resolves or rejects, and changes nothing.
CloseOutcomes(b) ==
    IF browsers[b] = "open"
    THEN {[ok |-> TRUE, status |-> "closed"],
          [ok |-> FALSE, status |-> "open"],
          [ok |-> FALSE, status |-> "closed"]}
    ELSE {[ok |-> TRUE, status |-> "closed"], [ok |-> FALSE, status |-> "closed"]}

\* browser.newPage() resolves only on an open browser.
NewPageOutcomes(b) == IF b # 0 /\ browsers[b] = "open" THEN {TRUE, FALSE} ELSE {FALSE}

\* A call on a page resolves only while the page is alive.
PageOutcomes(g, resolved) == IF PageAlive(g) THEN resolved \cup {"error"} ELSE {"error"}

\* What el.textContent / document.body.textContent may hold, and what eval may give.
TextContents == {Undef, Str(""), Str("hello")}
ScriptResults == {Num(2), Undef}

----------------------------------------------------------------------------
(* The tool catalog each variant answers ListTools with: name, description, *)
(* the properties of the inputSchema with their types, the required ones.   *)

Descriptor(name, description, properties, required) ==
    [name |-> name, description |-> description, properties |-> properties,
     required |-> required]

\* PuppeteerMCPServer.setupToolHandlers
StdioTools ==
    <<Descriptor("puppeteer_launch", "Launch a new browser instance",
          {<<"headless", "boolean">>, <<"viewport", "object">>,
           <<"viewport.width", "number">>, <<"viewport.height", "number">>}, {}),
      Descriptor("puppeteer_navigate", "Navigate to a URL",
          {<<"url", "string">>, <<"waitUntil", "string">>}, {"url"}),
      Descriptor("puppeteer_screenshot", "Take a screenshot of the current page",
          {<<"fullPage", "boolean">>, <<"format", "string">>, <<"quality", "number">>}, {}),
      Descriptor("puppeteer_get_text", "Get text content from the page or a specific selector",
          {<<"selector", "string">>}, {}),
      Descriptor("puppeteer_click", "Click on an element",
          {<<"selector", "string">>}, {"selector"}),
      Descriptor("puppeteer_type", "Type text into an input field",
          {<<"selector", "string">>, <<"text", "string">>}, {"selector", "text"}),
      Descriptor("puppeteer_evaluate", "Execute JavaScript in the browser context",
          {<<"script", "string">>}, {"script"}),
      Descriptor("puppeteer_close", "Close the browser instance", {}, {})>>

\* PuppeteerHTTPMCPServer.setupToolHandlers
HttpTools ==
    <<Descriptor("puppeteer_launch", "Launch a new browser instance",
          {<<"headless", "boolean">>, <<"viewport", "object">>,
           <<"viewport.width", "number">>, <<"viewport.height", "number">>}, {}),
      Descriptor("puppeteer_navigate", "Navigate to a URL",
          {<<"url", "string">>, <<"waitUntil", "string">>}, {"url"}),
      Descriptor("puppeteer_screenshot", "Take a screenshot of the current page",
          {<<"fullPage", "boolean">>, <<"format", "string">>, <<"quality", "number">>}, {}),
      Descriptor("puppeteer_get_text", "Get text content from the page or a specific selector",
          {<<"selector", "string">>}, {}),
      Descriptor("puppeteer_click", "Click on an element",
          {<<"selector", "string">>}, {"selector"}),
      Descriptor("puppeteer_type", "Type text into an input field",
          {<<"selector", "string">>, <<"text", "string">>}, {"selector", "text"}),
      Descriptor("puppeteer_evaluate", "Execute JavaScript in the browser context",
          {<<"script", "string">>}, {"script"}),
      Descriptor("puppeteer_close", "Close the browser instance", {}, {})>>

ListTools(v) == IF v = "stdio" THEN StdioTools ELSE HttpTools

----------------------------------------------------------------------------
(* Requests.                                                                *)

LaunchTool == "puppeteer_launch"
NavigateTool == "puppeteer_navigate"
ScreenshotTool == "puppeteer_screenshot"
GetTextTool == "puppeteer_get_text"
ClickTool == "puppeteer_click"
TypeTool == "puppeteer_type"
EvaluateTool == "puppeteer_evaluate"
CloseTool == "puppeteer_close"

PageTools == {NavigateTool, ScreenshotTool, GetTextTool, ClickTool, TypeTool, EvaluateTool}
ToolNames == PageTools \cup {LaunchTool, CloseTool}
UnknownNames == {"puppeteer_reload"}

LaunchArgs ==
    {NoArgs} \cup
    {[EmptyArgs EXCEPT !.headless = h, !.viewport = v[1], !.width = v[2], !.height = v[3]] :
        h \in {Undef, Bool(TRUE), Bool(FALSE), Str("yes")},
        v \in {<<Undef, Undef, Undef>>, <<Obj, Num(800), Num(0)>>}}

NavigateArgs ==
    {NoArgs} \cup
    {[EmptyArgs EXCEPT !.url = u, !.waitUntil = w] :
        u \in {Undef, Num(5), Str("not a url"), Str("https://"), Str("https://example.com")},
        w \in {Undef, Str("networkidle0"), Str("never")}}

ScreenshotArgs ==
    {NoArgs} \cup
    {[EmptyArgs EXCEPT !.fullPage = f, !.format = t, !.quality = q] :
        f \in {Undef, Bool(TRUE)},
        t \in {Undef, Str("png"), Str("jpeg"), Str("webp"), Str("gif")},
        q \in {Undef, Num(-1), Num(0), Num(100), Num(101)}}

GetTextArgs ==
    {NoArgs} \cup {[EmptyArgs EXCEPT !.selector = x] : x \in {Undef, Str(""), Str("#a"), Num(5)}}

ClickArgs ==
    {NoArgs} \cup {[EmptyArgs EXCEPT !.selector = x] : x \in {Undef, Str("#a"), Num(5)}}

TypeArgs ==
    {NoArgs} \cup
    {[EmptyArgs EXCEPT !.selector = x, !.text = y] :
        x \in {Undef, Str("#a")}, y \in {Undef, Str("hi"), Num(5)}}

EvaluateArgs ==
    {NoArgs} \cup {[EmptyArgs EXCEPT !.script = x] : x \in {Undef, Str("1+1"), Num(5)}}

CloseArgs == {NoArgs, EmptyArgs}

NoRequest == [name |-> "", args |-> NoArgs, browser0 |-> 0, page0 |-> 0, open0 |-> {}]
NoLoc == [args |-> NoArgs, existing |-> {}]

NoLaunches == [n |-> 0, made |-> 0, first |-> 0, closedOld |-> FALSE]

\* The process runs and no SIGINT listener is in progress.
Running == [state |-> "running", tgt |-> 0]

Init ==
    /\ variant \in {"stdio", "http"}
    /\ nodeEnv \in {"development", "production"}
    /\ variant = "stdio" => nodeEnv = "development"
    /\ browser = 0
    /\ page = 0
    /\ browsers = <<>>
    /\ pages = <<>>
    /\ pc = [p \in Procs |-> "idle"]
    /\ req = [p \in Procs |-> NoRequest]
    /\ loc = [p \in Procs |-> NoLoc]
    /\ calls = [p \in Procs |-> <<>>]
    /\ out = [p \in Procs |-> <<>>]
    /\ launches = NoLaunches
    /\ lastClosed = FALSE
    /\ rt = 0
    /\ signal = Running

----------------------------------------------------------------------------
(* The CallTool handler.  A request is taken while the process is idle; the *)
(* method runs up to its first await in the same step.                      *)

\* const { name, arguments: args } = request.params
Receive(p, name, args) ==
    /\ pc[p] = "idle"
    /\ req' = [req EXCEPT ![p] =
                 [name |-> name, args |-> args, browser0 |-> browser, page0 |-> page,
                  open0 |-> OpenBrowsers]]

\* The method settled: the handler returns its content, or the catch block's envelope.
Settle(p, result, cs) ==
    /\ pc' = [pc EXCEPT ![p] = "done"]
    /\ out' = [out EXCEPT ![p] = Append(@, TryCatch(result))]
    /\ calls' = [calls EXCEPT ![p] = cs]
    /\ loc' = [loc EXCEPT ![p] = NoLoc]
    /\ UNCHANGED <<launches, lastClosed, rt, signal>>

\* The method awaits an engine call (or another promise) at `label`.
Suspend(p, label, cs, l) ==
    /\ pc' = [pc EXCEPT ![p] = label]
    /\ calls' = [calls EXCEPT ![p] = cs]
    /\ loc' = [loc EXCEPT ![p] = l]
    /\ UNCHANGED <<out, launches, lastClosed, rt, signal>>

\* Room left in the model for the browsers and pages an invocation may create.
Room(nb, np) == Len(browsers) + nb <= MaxBrowsers /\ Len(pages) + np <= MaxPages

----------------------------------------------------------------------------
(* launchBrowser                                                            *)

\* After the old browser is closed: build the options and call puppeteer.launch.
\* The stdio variant builds them at once; the http variant first awaits the
\* executable discovery (chromium.executablePath, or import('fs')).
LaunchOptionsStep(p, args, cs) ==
    IF variant = "http"
    THEN IF nodeEnv = "production"
         THEN Suspend(p, "launch.discover", Started(cs, Call("executablePath", 0, NoOpts)), NoLoc)
         ELSE Suspend(p, "launch.discover", cs, NoLoc)
    ELSE IF ~args.present
    THEN Settle(p, Throw(ArgsTypeErrorMessage), cs)
    ELSE Suspend(p, "launch.launch", Started(cs, Call("launch", 0, StdioOptions(args))), NoLoc)

\* A faulty launchBrowser: it does not close the browser it replaces.
LaunchWithoutClose(p, args) ==
    /\ Receive(p, LaunchTool, args)
    /\ Room(1, 1)
    /\ LaunchOptionsStep(p, args, <<>>)
    /\ UNCHANGED <<variant, nodeEnv, browser, page, browsers, pages>>

\* if (this.browser) { await this.browser.close(); }
LaunchBrowser(p, args) ==
    /\ Receive(p, LaunchTool, args)
    /\ Room(1, 1)
    /\ IF browser # 0
       THEN Suspend(p, "launch.close", <<Call("close", browser, NoOpts)>>, NoLoc)
       ELSE LaunchOptionsStep(p, args, <<>>)
    /\ UNCHANGED <<variant, nodeEnv, browser, page, browsers, pages>>

\* browser.close() of the old browser settles.
LaunchClosed(p) ==
    /\ pc[p] = "launch.close"
    /\ \E r \in CloseOutcomes(Pending(p).tgt) :
        /\ browsers' = [browsers EXCEPT ![Pending(p).tgt] = r.status]
        /\ IF r.ok
           THEN LaunchOptionsStep(p, req[p].args, Ended(calls[p], "ok"))
           ELSE Settle(p, Throw(EngineMessage("close")), Ended(calls[p], "error"))
    /\ UNCHANGED <<variant, nodeEnv, browser, page, pages, req>>

\* A faulty http launchBrowser: it reads args?.headless, so absent arguments launch too.
LaunchDiscoveredLenient(p) ==
    /\ pc[p] = "launch.discover"
    /\ \/ /\ nodeEnv = "production"
          /\ \E resolved \in BOOLEAN :
               IF ~resolved
               THEN Settle(p, Throw(EngineMessage("executablePath")), Ended(calls[p], "error"))
               ELSE Suspend(p, "launch.launch",
                        Started(Ended(calls[p], "ok"),
                                Call("launch", 0, HostedOptions(req[p].args))), NoLoc)
       \/ /\ nodeEnv # "production"
          /\ \E existing \in SUBSET {ChromePaths[i] : i \in 1..Len(ChromePaths)} :
               Suspend(p, "launch.launch",
                   Started(calls[p], Call("launch", 0, LocalOptions(req[p].args, existing))),
                   [NoLoc EXCEPT !.existing = existing])
    /\ UNCHANGED <<variant, nodeEnv, browser, page, browsers, pages, req>>

\* http: the discovery settles, the options are built, puppeteer.launch is called.
LaunchDiscovered(p) ==
    /\ pc[p] = "launch.discover"
    /\ \/ /\ nodeEnv = "production"
          /\ \E resolved \in BOOLEAN :
               IF ~resolved
               THEN Settle(p, Throw(EngineMessage("executablePath")), Ended(calls[p], "error"))
               ELSE IF ~req[p].args.present
               THEN Settle(p, Throw(ArgsTypeErrorMessage), Ended(calls[p], "ok"))
               ELSE Suspend(p, "launch.launch",
                        Started(Ended(calls[p], "ok"),
                                Call("launch", 0, HostedOptions(req[p].args))), NoLoc)
       \/ /\ nodeEnv # "production"
          /\ \E existing \in SUBSET {ChromePaths[i] : i \in 1..Len(ChromePaths)} :
               IF ~req[p].args.present
               THEN Settle(p, Throw(ArgsTypeErrorMessage), calls[p])
               ELSE Suspend(p, "launch.launch",
                        Started(calls[p], Call("launch", 0, LocalOptions(req[p].args, existing))),
                        [NoLoc EXCEPT !.existing = existing])
    /\ UNCHANGED <<variant, nodeEnv, browser, page, browsers, pages, req>>

\* this.browser = await puppeteer.launch(options); then this.browser.newPage() is called.
LaunchLaunched(p) ==
    /\ pc[p] = "launch.launch"
    /\ \E resolved \in BOOLEAN :
         IF resolved
         THEN /\ browsers' = Append(browsers, "open")
              /\ browser' = Len(browsers) + 1
              /\ Suspend(p, "launch.newPage",
                    Started(Ended(calls[p], "ok"), Call("newPage", Len(browsers) + 1, NoOpts)),
                    NoLoc)
         ELSE /\ UNCHANGED <<browsers, browser>>
              /\ Settle(p, Throw(EngineMessage("launch")), Ended(calls[p], "error"))
    /\ UNCHANGED <<variant, nodeEnv, page, pages, req>>

\* this.page = await this.browser.newPage(); return the confirmation.
LaunchPaged(p) ==
    /\ pc[p] = "launch.newPage"
    /\ \E resolved \in NewPageOutcomes(Pending(p).tgt) :
         IF resolved
         THEN /\ pages' = Append(pages, Pending(p).tgt)
              /\ page' = Len(pages) + 1
              /\ Settle(p, Return(<<TextItem(LaunchedText(req[p].args))>>),
                        Ended(calls[p], "ok"))
         ELSE /\ UNCHANGED <<pages, page>>
              /\ Settle(p, Throw(EngineMessage("newPage")), Ended(calls[p], "error"))
    /\ UNCHANGED <<variant, nodeEnv, browser, browsers, req>>

----------------------------------------------------------------------------
(* closeBrowser                                                             *)

\* A faulty closeBrowser: with no browser it throws, as the page operations do.
CloseBrowserStrict(p, args) ==
    /\ Receive(p, CloseTool, args)
    /\ IF browser # 0
       THEN Suspend(p, "close.close", <<Call("close", browser, NoOpts)>>, NoLoc)
       ELSE Settle(p, Throw(NotLaunchedMessage), <<>>)
    /\ UNCHANGED <<variant, nodeEnv, browser, page, browsers, pages>>

\* if (this.browser) { await this.browser.close(); ... } return the confirmation.
CloseBrowser(p, args) ==
    /\ Receive(p, CloseTool, args)
    /\ IF browser # 0
       THEN Suspend(p, "close.close", <<Call("close", browser, NoOpts)>>, NoLoc)
       ELSE Settle(p, Return(<<TextItem(ClosedText)>>), <<>>)
    /\ UNCHANGED <<variant, nodeEnv, browser, page, browsers, pages>>

\* A faulty closeBrowser: it resets this.browser and forgets this.page.
CloseClosedKeepsPage(p) ==
    /\ pc[p] = "close.close"
    /\ \E r \in CloseOutcomes(Pending(p).tgt) :
        /\ browsers' = [browsers EXCEPT ![Pending(p).tgt] = r.status]
        /\ IF r.ok
           THEN /\ browser' = 0
                /\ UNCHANGED page
                /\ Settle(p, Return(<<TextItem(ClosedText)>>), Ended(calls[p], "ok"))
           ELSE /\ UNCHANGED <<browser, page>>
                /\ Settle(p, Throw(EngineMessage("close")), Ended(calls[p], "error"))
    /\ UNCHANGED <<variant, nodeEnv, pages, req>>

\* A faulty closeBrowser: it resets this.page and forgets this.browser.
CloseClosedKeepsBrowser(p) ==
    /\ pc[p] = "close.close"
    /\ \E r \in CloseOutcomes(Pending(p).tgt) :
        /\ browsers' = [browsers EXCEPT ![Pending(p).tgt] = r.status]
        /\ IF r.ok
           THEN /\ page' = 0
                /\ UNCHANGED browser
                /\ Settle(p, Return(<<TextItem(ClosedText)>>), Ended(calls[p], "ok"))
           ELSE /\ UNCHANGED <<browser, page>>
                /\ Settle(p, Throw(EngineMessage("close")), Ended(calls[p], "error"))
    /\ UNCHANGED <<variant, nodeEnv, pages, req>>

\* this.browser = null; this.page = null;
CloseClosed(p) ==
    /\ pc[p] = "close.close"
    /\ \E r \in CloseOutcomes(Pending(p).tgt) :
        /\ browsers' = [browsers EXCEPT ![Pending(p).tgt] = r.status]
        /\ IF r.ok
           THEN /\ browser' = 0
                /\ page' = 0
                /\ Settle(p, Return(<<TextItem(ClosedText)>>), Ended(calls[p], "ok"))
           ELSE /\ UNCHANGED <<browser, page>>
                /\ Settle(p, Throw(EngineMessage("close")), Ended(calls[p], "error"))
    /\ UNCHANGED <<variant, nodeEnv, pages, req>>

\* A faulty default case: it returns the message instead of throwing it.
UnknownToolReturned(p, name, args) ==
    /\ Receive(p, name, args)
    /\ Settle(p, Return(<<TextItem(UnknownToolMessage(name))>>), <<>>)
    /\ UNCHANGED <<variant, nodeEnv, browser, page, browsers, pages>>

\* default: throw new Error(`Unknown tool: ${name}`)
UnknownTool(p, name, args) ==
    /\ Receive(p, name, args)
    /\ Settle(p, Throw(UnknownToolMessage(name)), <<>>)
    /\ UNCHANGED <<variant, nodeEnv, browser, page, browsers, pages>>

----------------------------------------------------------------------------
(* The page operations: parse, ensureBrowserAndPage, one or two page calls. *)

\* A faulty ensureBrowserAndPage: it looks at this.page before this.browser.
EnsurePageFirst(b, g) ==
    IF g = 0 THEN "newPage" ELSE IF b = 0 THEN "throw" ELSE "ready"

\* ensureBrowserAndPage, up to its await: throw, call newPage, or nothing to do.
EnsureBrowserAndPage(b, g) ==
    IF b = 0 THEN "throw" ELSE IF g = 0 THEN "newPage" ELSE "ready"

\* const options = { fullPage, type: format };
\* if (format === 'jpeg' && quality) { options.quality = quality; }
ScreenshotOptions(a) ==
    [fullPage |-> a.fullPage.b,
     type |-> a.format.s,
     quality |-> IF a.format.s = "jpeg" /\ Truthy(a.quality) THEN a.quality ELSE Undef]

\* The first call each method makes on this.page, from its parsed arguments.
PageCall(name, a, g) ==
    CASE name = NavigateTool ->
            Call("goto", g, [url |-> a.url.s, waitUntil |-> a.waitUntil.s])
      [] name = ScreenshotTool -> Call("screenshot", g, ScreenshotOptions(a))
      [] name = GetTextTool ->
            IF Truthy(a.selector)
            THEN Call("$", g, [selector |-> a.selector.s])
            ELSE Call("evaluate", g, [fn |-> "document.body.textContent || ''"])
      [] name = ClickTool -> Call("click", g, [selector |-> a.selector.s])
      [] name = TypeTool -> Call("type", g, [selector |-> a.selector.s, text |-> a.text.s])
      [] name = EvaluateTool -> Call("evaluate", g, [fn |-> "eval", script |-> a.script.s])

\* const {...} = Schema.parse(args); await this.ensureBrowserAndPage(); this.page!.call(...)
PageOperation(p, name, args, parsed) ==
    /\ Receive(p, name, args)
    /\ Room(0, IF EnsureBrowserAndPage(browser, page) = "newPage" THEN 1 ELSE 0)
    /\ IF ~parsed.ok
       THEN Settle(p, Throw(ZodMessage(parsed.issues)), <<>>)
       ELSE CASE EnsureBrowserAndPage(browser, page) = "throw" ->
                    Settle(p, Throw(NotLaunchedMessage), <<>>)
              [] EnsureBrowserAndPage(browser, page) = "newPage" ->
                    Suspend(p, "ensure", <<Call("newPage", browser, NoOpts)>>,
                            [NoLoc EXCEPT !.args = parsed.value])
              [] OTHER ->
                    Suspend(p, "page", <<PageCall(name, parsed.value, page)>>,
                            [NoLoc EXCEPT !.args = parsed.value])
    /\ UNCHANGED <<variant, nodeEnv, browser, page, browsers, pages>>

Navigate(p, args) == PageOperation(p, NavigateTool, args, NavigateSchema(args))
Screenshot(p, args) == PageOperation(p, ScreenshotTool, args, ScreenshotSchema(args))
GetText(p, args) == PageOperation(p, GetTextTool, args, GetTextSchema(args))
Click(p, args) == PageOperation(p, ClickTool, args, ClickSchema(args))
Type(p, args) == PageOperation(p, TypeTool, args, TypeSchema(args))
Evaluate(p, args) == PageOperation(p, EvaluateTool, args, EvaluateSchema(args))

\* A faulty ensureBrowserAndPage: when newPage rejects it gives up the browser handle.
EnsurePagedDropsBrowser(p) ==
    /\ pc[p] = "ensure"
    /\ \E resolved \in NewPageOutcomes(Pending(p).tgt) :
         IF resolved
         THEN /\ pages' = Append(pages, Pending(p).tgt)
              /\ page' = Len(pages) + 1
              /\ UNCHANGED browser
              /\ Suspend(p, "page",
                    Started(Ended(calls[p], "ok"),
                            PageCall(req[p].name, loc[p].args, Len(pages) + 1)),
                    loc[p])
         ELSE /\ UNCHANGED <<pages, page>>
              /\ browser' = 0
              /\ Settle(p, Throw(EngineMessage("newPage")), Ended(calls[p], "error"))
    /\ UNCHANGED <<variant, nodeEnv, browsers, req>>

\* this.page = await this.browser.newPage(); then the method's call on this.page.
EnsurePaged(p) ==
    /\ pc[p] = "ensure"
    /\ \E resolved \in NewPageOutcomes(Pending(p).tgt) :
         IF resolved
         THEN /\ pages' = Append(pages, Pending(p).tgt)
              /\ page' = Len(pages) + 1
              /\ Suspend(p, "page",
                    Started(Ended(calls[p], "ok"),
                            PageCall(req[p].name, loc[p].args, Len(pages) + 1)),
                    loc[p])
         ELSE /\ UNCHANGED <<pages, page>>
              /\ Settle(p, Throw(EngineMessage("newPage")), Ended(calls[p], "error"))
    /\ UNCHANGED <<variant, nodeEnv, browser, browsers, req>>

\* await this.page!.goto(url, { waitUntil }) settles.
NavigateDone(p) ==
    /\ pc[p] = "page" /\ req[p].name = NavigateTool
    /\ \E r \in PageOutcomes(Pending(p).tgt, {"ok"}) :
         IF r = "ok"
         THEN Settle(p, Return(<<TextItem(NavigatedText(loc[p].args.url.s))>>),
                     Ended(calls[p], r))
         ELSE Settle(p, Throw(EngineMessage("goto")), Ended(calls[p], r))
    /\ UNCHANGED <<variant, nodeEnv, browser, page, browsers, pages, req>>

\* const screenshot = await this.page!.screenshot(options); if (!screenshot) throw ...
ScreenshotDone(p) ==
    /\ pc[p] = "page" /\ req[p].name = ScreenshotTool
    /\ \E r \in PageOutcomes(Pending(p).tgt, {"ok", "empty"}) :
         CASE r = "ok" ->
                Settle(p,
                    Return(<<TextItem(ScreenshotText(loc[p].args.format.s, loc[p].args.fullPage.b)),
                             ImageItem("base64", "image/" \o loc[p].args.format.s)>>),
                    Ended(calls[p], r))
           [] r = "empty" -> Settle(p, Throw(CaptureFailedMessage), Ended(calls[p], r))
           [] OTHER -> Settle(p, Throw(EngineMessage("screenshot")), Ended(calls[p], r))
    /\ UNCHANGED <<variant, nodeEnv, browser, page, browsers, pages, req>>

\* const element = await this.page!.$(selector); if (!element) throw ...; then evaluate.
GetTextQueried(p) ==
    /\ pc[p] = "page" /\ req[p].name = GetTextTool /\ Pending(p).op = "$"
    /\ \E r \in PageOutcomes(Pending(p).tgt, {"element", "null"}) :
         CASE r = "element" /\ page = 0 ->
                Settle(p, Throw(NullPageMessage), Ended(calls[p], r))
           [] r = "element" ->
                Suspend(p, "page",
                    Started(Ended(calls[p], r),
                            Call("evaluate", page, [fn |-> "el.textContent || ''"])),
                    loc[p])
           [] r = "null" ->
                Settle(p, Throw(ElementNotFoundMessage(loc[p].args.selector.s)),
                       Ended(calls[p], r))
           [] OTHER -> Settle(p, Throw(EngineMessage("$")), Ended(calls[p], r))
    /\ UNCHANGED <<variant, nodeEnv, browser, page, browsers, pages, req>>

\* text = await this.page!.evaluate(... textContent || ''); return the text.
GetTextDone(p) ==
    /\ pc[p] = "page" /\ req[p].name = GetTextTool /\ Pending(p).op = "evaluate"
    /\ \/ /\ PageAlive(Pending(p).tgt)
          /\ \E content \in TextContents :
               Settle(p,
                   Return(<<TextItem(GetTextText(loc[p].args.selector,
                                                 OrElse(content, Str("")).s))>>),
                   Ended(calls[p], "ok"))
       \/ Settle(p, Throw(EngineMessage("evaluate")), Ended(calls[p], "error"))
    /\ UNCHANGED <<variant, nodeEnv, browser, page, browsers, pages, req>>

\* await this.page!.click(selector) settles.
ClickDone(p) ==
    /\ pc[p] = "page" /\ req[p].name = ClickTool
    /\ \E r \in PageOutcomes(Pending(p).tgt, {"ok"}) :
         IF r = "ok"
         THEN Settle(p, Return(<<TextItem(ClickedText(loc[p].args.selector.s))>>),
                     Ended(calls[p], r))
         ELSE Settle(p, Throw(EngineMessage("click")), Ended(calls[p], r))
    /\ UNCHANGED <<variant, nodeEnv, browser, page, browsers, pages, req>>

\* await this.page!.type(selector, text) settles.
TypeDone(p) ==
    /\ pc[p] = "page" /\ req[p].name = TypeTool
    /\ \E r \in PageOutcomes(Pending(p).tgt, {"ok"}) :
         IF r = "ok"
         THEN Settle(p,
                 Return(<<TextItem(TypedText(loc[p].args.text.s, loc[p].args.selector.s))>>),
                 Ended(calls[p], r))
         ELSE Settle(p, Throw(EngineMessage("type")), Ended(calls[p], r))
    /\ UNCHANGED <<variant, nodeEnv, browser, page, browsers, pages, req>>

\* const result = await this.page!.evaluate(eval, script); return it serialised.
EvaluateDone(p) ==
    /\ pc[p] = "page" /\ req[p].name = EvaluateTool
    /\ \/ /\ PageAlive(Pending(p).tgt)
          /\ \E result \in ScriptResults :
               Settle(p, Return(<<TextItem(ScriptResultText(result))>>), Ended(calls[p], "ok"))
       \/ Settle(p, Throw(EngineMessage("evaluate")), Ended(calls[p], "error"))
    /\ UNCHANGED <<variant, nodeEnv, browser, page, browsers, pages, req>>

----------------------------------------------------------------------------
(* The response is written; what the invocation was is remembered only as   *)
(* far as the next ones are judged by it.                                   *)

Min(a, b) == IF a < b THEN a ELSE b

\* Every awaited call of the invocation resolved with a value.
AllResolved(cs) == \A i \in 1..Len(cs) : cs[i].res \in {"ok", "element"}

\* The browser a launch invocation opened (0 if it opened none).
Opened(cs) ==
    IF \E i \in 1..Len(cs) : cs[i].op = "newPage"
    THEN cs[CHOOSE i \in 1..Len(cs) : cs[i].op = "newPage"].tgt
    ELSE 0

\* The arguments fit the tool's descriptor in the catalog.
LaunchArgsValid(args) ==
    /\ args.present
    /\ args.headless.t \in {"undefined", "boolean"}
    /\ args.viewport.t \in {"undefined", "object"}

ArgsValid(name, args) ==
    CASE name = LaunchTool -> LaunchArgsValid(args)
      [] name = NavigateTool -> NavigateSchema(args).ok
      [] name = ScreenshotTool -> ScreenshotSchema(args).ok
      [] name = GetTextTool -> GetTextSchema(args).ok
      [] name = ClickTool -> ClickSchema(args).ok
      [] name = TypeTool -> TypeSchema(args).ok
      [] name = EvaluateTool -> EvaluateSchema(args).ok
      [] OTHER -> TRUE

RoundTrip == <<LaunchTool, NavigateTool, ScreenshotTool, CloseTool, CloseTool>>

\* The invocation went as the round trip supposes: valid arguments, engine succeeding.
Nominal(p) == ArgsValid(req[p].name, req[p].args) /\ AllResolved(calls[p])

Respond(p) ==
    /\ pc[p] = "done"
    /\ pc' = [pc EXCEPT ![p] = "idle"]
    /\ req' = [req EXCEPT ![p] = NoRequest]
    /\ calls' = [calls EXCEPT ![p] = <<>>]
    /\ out' = [out EXCEPT ![p] = <<>>]
    /\ launches' =
         IF req[p].name = LaunchTool
         THEN [n |-> Min(launches.n + 1, 2),
               made |-> Opened(calls[p]),
               first |-> IF launches.n >= 1 THEN launches.made ELSE 0,
               closedOld |-> /\ ArgsValid(LaunchTool, req[p].args)
                             /\ \E i \in 1..Len(calls[p]) :
                                   calls[p][i].op = "close" /\ calls[p][i].res = "ok"]
         ELSE NoLaunches
    /\ lastClosed' = (req[p].name = CloseTool /\ AllResolved(calls[p]))
    /\ rt' =
         IF rt < Len(RoundTrip) /\ req[p].name = RoundTrip[rt + 1] /\ Nominal(p)
         THEN rt + 1
         ELSE IF req[p].name = LaunchTool /\ Nominal(p) THEN 1 ELSE 0
    /\ UNCHANGED <<variant, nodeEnv, browser, page, browsers, pages, loc, signal>>

----------------------------------------------------------------------------
(* Invocations issued one at a time: a request is taken only when no other  *)
(* invocation is in flight.                                                 *)

Quiet == \A q \in Procs : pc[q] = "idle"

Next ==
    \/ \E p \in SeqProcs, a \in LaunchArgs : Quiet /\ LaunchBrowser(p, a)
    \/ \E p \in SeqProcs, a \in NavigateArgs : Quiet /\ Navigate(p, a)
    \/ \E p \in SeqProcs, a \in ScreenshotArgs : Quiet /\ Screenshot(p, a)
    \/ \E p \in SeqProcs, a \in GetTextArgs : Quiet /\ GetText(p, a)
    \/ \E p \in SeqProcs, a \in ClickArgs : Quiet /\ Click(p, a)
    \/ \E p \in SeqProcs, a \in TypeArgs : Quiet /\ Type(p, a)
    \/ \E p \in SeqProcs, a \in EvaluateArgs : Quiet /\ Evaluate(p, a)
    \/ \E p \in SeqProcs, a \in CloseArgs : Quiet /\ CloseBrowser(p, a)
    \/ \E p \in SeqProcs, n \in UnknownNames, a \in CloseArgs : Quiet /\ UnknownTool(p, n, a)
    \/ \E p \in SeqProcs : LaunchClosed(p)
    \/ \E p \in SeqProcs : LaunchDiscovered(p)
    \/ \E p \in SeqProcs : LaunchLaunched(p)
    \/ \E p \in SeqProcs : LaunchPaged(p)
    \/ \E p \in SeqProcs : CloseClosed(p)
    \/ \E p \in SeqProcs : EnsurePaged(p)
    \/ \E p \in SeqProcs : NavigateDone(p)
    \/ \E p \in SeqProcs : ScreenshotDone(p)
    \/ \E p \in SeqProcs : GetTextQueried(p)
    \/ \E p \in SeqProcs : GetTextDone(p)
    \/ \E p \in SeqProcs : ClickDone(p)
    \/ \E p \in SeqProcs : TypeDone(p)
    \/ \E p \in SeqProcs : EvaluateDone(p)
    \/ \E p \in SeqProcs : Respond(p)

Spec == Init /\ [][Next]_vars

----------------------------------------------------------------------------
(* The interrupt signal.  The listener is async: it awaits cleanup, which   *)
(* awaits the close of the browser this.browser refers to at that moment,   *)
(* and calls process.exit(0) after it.  While it is suspended the process   *)
(* goes on serving.                                                         *)

\* process.on('SIGINT', async () => { await this.cleanup(); process.exit(0); })
\* cleanup: if (this.browser) { await this.browser.close(); }
Sigint ==
    /\ signal.state = "running"
    /\ signal' = IF browser # 0
                 THEN [state |-> "cleanup", tgt |-> browser]
                 ELSE [state |-> "exited", tgt |-> 0]
    /\ UNCHANGED <<variant, nodeEnv, browser, page, browsers, pages, pc, req, loc, calls, out,
                   launches, lastClosed, rt>>

\* cleanup's close settles: process.exit(0); or the listener rejects, and the
\* process goes on or is ended by the unhandled rejection.
CleanupClosed ==
    /\ signal.state = "cleanup"
    /\ \E r \in CloseOutcomes(signal.tgt) :
        /\ browsers' = [browsers EXCEPT ![signal.tgt] = r.status]
        /\ IF r.ok
           THEN signal' = [signal EXCEPT !.state = "exited"]
           ELSE \E s \in {"rejected", "crashed"} : signal' = [signal EXCEPT !.state = s]
    /\ UNCHANGED <<variant, nodeEnv, browser, page, pages, pc, req, loc, calls, out,
                   launches, lastClosed, rt>>

\* The process is alive: it has not exited and was not ended.
Alive == signal.state \notin {"exited", "crashed"}

SignalLaunchArgs == {EmptyArgs}
SignalNavigateArgs == {[EmptyArgs EXCEPT !.url = Str("https://example.com")]}
SignalCloseArgs == {EmptyArgs}

\* Invocations one at a time, and the signal at any moment.
SignalNext ==
    \/ \E p \in SeqProcs, a \in SignalLaunchArgs : Alive /\ Quiet /\ LaunchBrowser(p, a)
    \/ \E p \in SeqProcs, a \in SignalNavigateArgs : Alive /\ Quiet /\ Navigate(p, a)
    \/ \E p \in SeqProcs, a \in CloseArgs : Alive /\ Quiet /\ CloseBrowser(p, a)
    \/ \E p \in SeqProcs : Alive /\ LaunchClosed(p)
    \/ \E p \in SeqProcs : Alive /\ LaunchDiscovered(p)
    \/ \E p \in SeqProcs : Alive /\ LaunchLaunched(p)
    \/ \E p \in SeqProcs : Alive /\ LaunchPaged(p)
    \/ \E p \in SeqProcs : Alive /\ CloseClosed(p)
    \/ \E p \in SeqProcs : Alive /\ EnsurePaged(p)
    \/ \E p \in SeqProcs : Alive /\ NavigateDone(p)
    \/ \E p \in SeqProcs : Alive /\ Respond(p)
    \/ Sigint
    \/ CleanupClosed

SignalSpec == Init /\ [][SignalNext]_vars

----------------------------------------------------------------------------
(* The HTTP transport: the handler is async and nothing serialises the      *)
(* requests, so a second invocation may be taken while the first is         *)
(* suspended at an engine call; both work on the same this.browser and      *)
(* this.page.                                                               *)

HttpInit == Init /\ variant = "http"

\* Room left, in these runs, for the browsers and pages an invocation may create.
RaceRoom(nb, np) ==
    Len(browsers) + nb <= MaxRaceBrowsers /\ Len(pages) + np <= MaxRacePages

HttpNext ==
    \/ \E p \in Procs, a \in SignalLaunchArgs : RaceRoom(1, 1) /\ LaunchBrowser(p, a)
    \/ \E p \in Procs, a \in SignalNavigateArgs :
          /\ RaceRoom(0, IF EnsureBrowserAndPage(browser, page) = "newPage" THEN 1 ELSE 0)
          /\ Navigate(p, a)
    \/ \E p \in Procs, a \in SignalCloseArgs : CloseBrowser(p, a)
    \/ \E p \in Procs : LaunchClosed(p)
    \/ \E p \in Procs : LaunchDiscovered(p)
    \/ \E p \in Procs : LaunchLaunched(p)
    \/ \E p \in Procs : LaunchPaged(p)
    \/ \E p \in Procs : CloseClosed(p)
    \/ \E p \in Procs : EnsurePaged(p)
    \/ \E p \in Procs : NavigateDone(p)
    \/ \E p \in Procs : Respond(p)

HttpSpec == HttpInit /\ [][HttpNext]_vars

----------------------------------------------------------------------------
(* Reading the envelopes.                                                   *)

StartsWith(s, pre) == Len(s) >= Len(pre) /\ SubSeq(s, 1, Len(pre)) = pre

Contains(s, sub) ==
    \E i \in 1..(Len(s) - Len(sub) + 1) : SubSeq(s, i, i + Len(sub) - 1) = sub

\* A single text item reading "Error: <message>".
IsErrorEnvelope(content) ==
    /\ Len(content) = 1
    /\ content[1].type = "text"
    /\ StartsWith(content[1].text, "Error: ")

Done(p) == pc[p] = "done"
Content(p) == out[p][1].content

\* The parse of a page tool's schema fails on these arguments.
ParseFails(p) == req[p].name \in PageTools /\ ~ArgsValid(req[p].name, req[p].args)

\* The session check fails: a page tool with valid arguments and no browser handle.
NotLaunched(p) ==
    req[p].name \in PageTools /\ ArgsValid(req[p].name, req[p].args) /\ req[p].browser0 = 0

EngineFailed(p) == \E i \in 1..Len(calls[p]) : calls[p][i].res = "error"

----------------------------------------------------------------------------
(* C1: in every state reached by invocations issued one at a time, whatever *)
(* each engine call does, a page handle is present only if a browser handle *)
(* is present.                                                              *)
PageImpliesBrowser == page # 0 => browser # 0

\* A launch that failed after the old browser was closed, the handles still set.
PageKeptAfterFailedLaunch ==
    /\ Done(1) /\ req[1].name = LaunchTool /\ EngineFailed(1)
    /\ page # 0 /\ browser # 0

(* C2: with no browser handle, a page-operation tool makes no engine call,  *)
(* returns an error envelope and leaves both handles absent; the message    *)
(* contains "not launched" for every argument mapping that passes the       *)
(* tool's schema (the others are rejected by the parse, which comes first). *)
NotLaunchedRejected ==
    \A p \in Procs :
        req[p].name \in PageTools /\ req[p].browser0 = 0 =>
            /\ Done(p)
            /\ calls[p] = <<>>
            /\ IsErrorEnvelope(Content(p))
            /\ browser = 0 /\ page = 0
            /\ NotLaunched(p) => Contains(Content(p)[1].text, "not launched")

\* A screenshot with valid arguments before any launch.
ScreenshotBeforeLaunch ==
    /\ Done(1) /\ req[1].name = ScreenshotTool /\ NotLaunched(1)
    /\ browsers = <<>>
    /\ Content(1) = ErrorEnvelope(NotLaunchedMessage)

(* C3: for each of the eight tools an invocation with invalid arguments is  *)
(* rejected before any session or engine call: no engine call is made and   *)
(* both handles are as they were.                                           *)
InvalidArgsRejectedFirst ==
    \A p \in Procs :
        Done(p) /\ req[p].name \in ToolNames /\ ~ArgsValid(req[p].name, req[p].args) =>
            /\ IsErrorEnvelope(Content(p))
            /\ \A i \in 1..Len(calls[p]) : calls[p][i].op \notin {"close", "launch", "newPage"}
            /\ OpenBrowsers = req[p].open0
            /\ browser = req[p].browser0 /\ page = req[p].page0

(* C4: an invocation settles exactly once, with an envelope and never with  *)
(* a rejection; when the parse, the session check or an engine call failed, *)
(* the envelope is one text item "Error: <message>".                        *)
OneEnvelopeNeverThrows ==
    \A p \in Procs :
        /\ ~Done(p) => out[p] = <<>>
        /\ Done(p) =>
            /\ Len(out[p]) = 1
            /\ out[p][1].kind = "return"
            /\ Len(Content(p)) >= 1
            /\ ParseFails(p) \/ NotLaunched(p) \/ EngineFailed(p) => IsErrorEnvelope(Content(p))

\* An engine call rejected in the middle of an invocation, rendered as an envelope.
EngineFailureRendered ==
    /\ Done(1) /\ req[1].name = NavigateTool
    /\ Len(calls[1]) = 2 /\ calls[1][2].res = "error"
    /\ Content(1) = ErrorEnvelope(EngineMessage("goto"))

(* C5: a launch that finds a browser handle calls puppeteer.launch only     *)
(* after the close of that browser has resolved, and at no moment are two   *)
(* browsers open.                                                           *)
CloseBeforeLaunch ==
    /\ Cardinality(OpenBrowsers) <= 1
    /\ \A p \in Procs : \A i \in 1..Len(calls[p]) :
          calls[p][i].op = "launch" /\ req[p].browser0 # 0 =>
              \E j \in 1..(i - 1) :
                  /\ calls[p][j].op = "close"
                  /\ calls[p][j].tgt = req[p].browser0
                  /\ calls[p][j].res = "ok"

\* A relaunch over an open browser: the old one closed, the new one open.
RelaunchedOverOpenBrowser ==
    /\ Done(1) /\ req[1].name = LaunchTool
    /\ req[1].browser0 \in req[1].open0
    /\ browser # req[1].browser0 /\ browser \in OpenBrowsers
    /\ req[1].browser0 \notin OpenBrowsers

PageOps == {"goto", "screenshot", "$", "evaluate", "click", "type"}

(* C6: once two launch invocations have completed in a row, the second     *)
(* (with valid arguments) having closed the browser the first one opened,   *)
(* no page of that first browser is held by the session and no page         *)
(* operation is made on one.                                                *)
FirstSessionPageGone ==
    launches.n = 2 /\ launches.first # 0 /\ launches.closedOld =>
        /\ page # 0 => pages[page] # launches.first
        /\ \A p \in Procs : \A i \in 1..Len(calls[p]) :
              calls[p][i].op \in PageOps => pages[calls[p][i].tgt] # launches.first

(* C7: close with no browser handle returns the confirmation, makes no      *)
(* engine call and changes nothing; close with a browser handle, the engine *)
(* close resolving, leaves that browser closed and both handles absent; so  *)
(* a close that follows a close starts and ends with no handles and returns *)
(* the same confirmation.                                                   *)
CloseIdempotent ==
    /\ lastClosed /\ Quiet => browser = 0 /\ page = 0
    /\ \A p \in Procs :
          Done(p) /\ req[p].name = CloseTool =>
              /\ lastClosed => req[p].browser0 = 0
              /\ req[p].browser0 = 0 =>
                    /\ Content(p) = <<TextItem(ClosedText)>>
                    /\ calls[p] = <<>>
                    /\ browser = 0 /\ page = req[p].page0
                    /\ OpenBrowsers = req[p].open0
              /\ req[p].browser0 # 0 /\ AllResolved(calls[p]) =>
                    /\ Content(p) = <<TextItem(ClosedText)>>
                    /\ Len(calls[p]) = 1
                    /\ calls[p][1].op = "close" /\ calls[p][1].tgt = req[p].browser0
                    /\ browser = 0 /\ page = 0
                    /\ req[p].browser0 \notin OpenBrowsers

\* The second of two closes, the first having closed a launched browser.
ClosedTwice ==
    /\ Done(1) /\ req[1].name = CloseTool /\ lastClosed
    /\ browsers # <<>>
    /\ Content(1) = <<TextItem(ClosedText)>>

Success(content) == Len(content) >= 1 /\ ~StartsWith(content[1].text, "Error: ")

(* C8: with every engine call resolving and valid arguments, each of        *)
(* launch, navigate, screenshot, close, close returns a success envelope,   *)
(* after the fifth no browser is open and both handles are absent, and a    *)
(* get_text that follows returns the not-launched error.                    *)
RoundTripSucceeds ==
    /\ \A p \in Procs :
          /\ Done(p) /\ Nominal(p) /\ rt < Len(RoundTrip) /\ req[p].name = RoundTrip[rt + 1]
                => Success(Content(p))
          /\ Done(p) /\ rt = Len(RoundTrip) /\ req[p].name = GetTextTool
                /\ ArgsValid(GetTextTool, req[p].args)
                => /\ Content(p) = ErrorEnvelope(NotLaunchedMessage)
                   /\ calls[p] = <<>>
                   /\ browser = 0 /\ page = 0
    /\ rt = Len(RoundTrip) /\ Quiet => browser = 0 /\ page = 0 /\ OpenBrowsers = {}

\* The whole round trip made, and the get_text after it answered.
RoundTripThenGetText ==
    /\ rt = Len(RoundTrip)
    /\ Done(1) /\ req[1].name = GetTextTool /\ ArgsValid(GetTextTool, req[1].args)
    /\ IsErrorEnvelope(Content(1))

UrlValid(args) == args.present /\ args.url.t = "string" /\ IsURL(args.url.s)

(* C9: navigate with a url that is not a valid URL returns an error         *)
(* envelope with no engine call and no handle changed, in every session     *)
(* state; navigate with valid arguments, a browser handle and every engine  *)
(* call resolving returns one text item containing the url, after a goto    *)
(* with that url and with waitUntil "load" when none was given.             *)
NavigateChecksUrl ==
    \A p \in Procs :
        /\ req[p].name = NavigateTool /\ ~UrlValid(req[p].args) =>
              /\ Done(p)
              /\ IsErrorEnvelope(Content(p))
              /\ calls[p] = <<>>
              /\ browser = req[p].browser0 /\ page = req[p].page0
        /\ Done(p) /\ req[p].name = NavigateTool /\ Nominal(p) /\ req[p].browser0 # 0 =>
              /\ Len(Content(p)) = 1
              /\ Content(p)[1].type = "text"
              /\ Success(Content(p))
              /\ Contains(Content(p)[1].text, req[p].args.url.s)
              /\ calls[p][Len(calls[p])].op = "goto"
              /\ calls[p][Len(calls[p])].opts.url = req[p].args.url.s
              /\ calls[p][Len(calls[p])].opts.waitUntil =
                    (IF req[p].args.waitUntil = Undef THEN "load" ELSE req[p].args.waitUntil.s)

\* A browser without a page, and a navigate to "not a url": still no page.
BadUrlCreatesNoPage ==
    /\ Done(1) /\ req[1].name = NavigateTool
    /\ req[1].args.url = Str("not a url")
    /\ req[1].browser0 \in req[1].open0 /\ req[1].page0 = 0
    /\ page = 0

QualitySupplied(args) == args.quality # Undef
FormatOf(args) == Coalesce(args.format, Str("png")).s

(* C10: the screenshot call carries a quality exactly when the format is    *)
(* jpeg and a quality was supplied, for every quality in 0..100; a quality  *)
(* outside 0..100 is rejected before any engine call.                       *)
QualityForwardedIffJpeg ==
    \A p \in Procs :
        req[p].name = ScreenshotTool =>
            /\ \A i \in 1..Len(calls[p]) :
                  calls[p][i].op = "screenshot" =>
                      ((calls[p][i].opts.quality # Undef)
                          <=> (FormatOf(req[p].args) = "jpeg" /\ QualitySupplied(req[p].args)))
            /\ (req[p].args.quality.t = "number"
                    /\ (req[p].args.quality.n < 0 \/ req[p].args.quality.n > 100))
                  => Done(p) /\ calls[p] = <<>> /\ IsErrorEnvelope(Content(p))

\* The invocation got no element from the page: no "$" call resolved with one.
NoElement(p) == \A i \in 1..Len(calls[p]) : calls[p][i].res # "element"

(* C11: with a browser handle and every engine call resolving, get_text     *)
(* with a selector string (the empty string included) that gives no element *)
(* returns an error envelope naming the selector; get_text with no selector *)
(* reads the whole document and returns a success envelope, an absent text  *)
(* content as the empty string.                                             *)
GetTextSelectorChecked ==
    \A p \in Procs :
        Done(p) /\ req[p].name = GetTextTool /\ req[p].browser0 # 0
            /\ ArgsValid(GetTextTool, req[p].args) /\ ~EngineFailed(p) =>
                /\ req[p].args.selector.t = "string" /\ NoElement(p) =>
                      Content(p) = ErrorEnvelope(ElementNotFoundMessage(req[p].args.selector.s))
                /\ req[p].args.selector = Undef =>
                      /\ Success(Content(p))
                      /\ calls[p][Len(calls[p])].op = "evaluate"
                      /\ StartsWith(Content(p)[1].text, "Page text: ")

(* C12: an invocation naming a tool outside the catalog returns the single  *)
(* text item "Error: Unknown tool: <name>", makes no engine call and leaves *)
(* both handles as they were, in every session state.                       *)
UnknownToolRejected ==
    \A p \in Procs :
        req[p].name \in UnknownNames =>
            /\ Done(p)
            /\ Content(p) = <<TextItem("Error: Unknown tool: " \o req[p].name)>>
            /\ calls[p] = <<>>
            /\ browser = req[p].browser0 /\ page = req[p].page0
            /\ OpenBrowsers = req[p].open0

\* An unknown tool named while a browser and a page are held.
UnknownToolWhileReady ==
    /\ Done(1) /\ req[1].name \in UnknownNames
    /\ req[1].browser0 \in req[1].open0 /\ req[1].page0 # 0
    /\ IsErrorEnvelope(Content(1))

(* C13: when the interrupt listener ends the process with process.exit, its *)
(* cleanup having resolved, no browser the process launched is open,        *)
(* whatever the session was doing when the signal arrived.                  *)
BrowsersClosedAtExit == signal.state = "exited" => OpenBrowsers = {}

\* The engine launch of the invocation was called and rejected.
LaunchRejected(p) ==
    \E i \in 1..Len(calls[p]) : calls[p][i].op = "launch" /\ calls[p][i].res = "error"

(* C14: a launch invoked with a browser open whose engine launch rejects    *)
(* returns an error envelope and leaves no browser open and both handles    *)
(* absent; a page operation that follows it returns the not-launched error  *)
(* and makes no engine call.                                                *)
FailedRelaunchClearsSession ==
    \A p \in Procs :
        /\ Done(p) /\ req[p].name = LaunchTool /\ ArgsValid(LaunchTool, req[p].args)
              /\ req[p].browser0 \in req[p].open0 /\ LaunchRejected(p) =>
                    /\ IsErrorEnvelope(Content(p))
                    /\ OpenBrowsers = {}
                    /\ browser = 0 /\ page = 0
        /\ Done(p) /\ req[p].name \in PageTools /\ ArgsValid(req[p].name, req[p].args)
              /\ launches.n = 2 /\ launches.made = 0 /\ launches.closedOld =>
                    /\ Content(p) = ErrorEnvelope(NotLaunchedMessage)
                    /\ calls[p] = <<>>

(* C15: from the moment a page operation is taken until its response, the   *)
(* browser handle is the one it found, and the page handle is the one it    *)
(* found or, if it found none and a browser handle is present, a page newly *)
(* created in that browser; this whether the operation succeeds or fails.   *)
LazyPageOnly ==
    \A p \in Procs :
        req[p].name \in PageTools =>
            /\ browser = req[p].browser0
            /\ \/ page = req[p].page0
               \/ /\ req[p].page0 = 0 /\ browser # 0
                  /\ page = Len(pages) /\ pages[page] = browser
                  /\ \E i \in 1..Len(calls[p]) :
                        calls[p][i].op = "newPage" /\ calls[p][i].res = "ok"

\* A page created lazily by an operation that then failed at its page call.
LazyPageThenFailure ==
    /\ Done(1) /\ req[1].name = ClickTool
    /\ req[1].page0 = 0 /\ page # 0
    /\ IsErrorEnvelope(Content(1))

\* The session states: which of this.browser, this.page is set.
SessionState(b, g) ==
    CASE b = 0 /\ g = 0 -> "NoBrowser"
      [] b # 0 /\ g = 0 -> "BrowserOnly"
      [] b # 0 /\ g # 0 -> "Ready"
      [] OTHER -> "PageOnly"

\* The step is invocation p's, leaving the await at `label`.
Leaves(p, label) == pc[p] = label /\ pc'[p] # label

\* The step ends a close invocation of p.
CloseEnds(p) == req'[p].name = CloseTool /\ pc[p] # "done" /\ pc'[p] = "done"

(* C16, as stated: the lazy page creation of ensureReady is the only step   *)
(* from BrowserOnly to Ready, launch is the only step into BrowserOnly, and *)
(* a close invocation ends in NoBrowser.                                    *)
StateMachineAsSpecified ==
    [][/\ SessionState(browser, page) = "BrowserOnly" /\ SessionState(browser', page') = "Ready"
            => \E p \in Procs : Leaves(p, "ensure")
       /\ SessionState(browser, page) # "BrowserOnly"
            /\ SessionState(browser', page') = "BrowserOnly"
            => \E p \in Procs : Leaves(p, "launch.launch")
       /\ \A p \in Procs : CloseEnds(p) => SessionState(browser', page') = "NoBrowser"]_vars

(* C16, as the code has it: a step from BrowserOnly to Ready is a page      *)
(* creation resolving, the lazy one of ensureBrowserAndPage or the one      *)
(* launch makes right after the engine launch; the only step into           *)
(* BrowserOnly is launch assigning the browser it opened, from NoBrowser;   *)
(* a close invocation that finds no browser, or whose engine close          *)
(* resolves, ends in NoBrowser, and one whose engine close rejects leaves   *)
(* the state as it was.                                                     *)
StateMachineOfTheCode ==
    [][/\ SessionState(browser, page) = "BrowserOnly" /\ SessionState(browser', page') = "Ready"
            => \E p \in Procs : Leaves(p, "ensure") \/ Leaves(p, "launch.newPage")
       /\ SessionState(browser, page) # "BrowserOnly"
            /\ SessionState(browser', page') = "BrowserOnly"
            => /\ SessionState(browser, page) = "NoBrowser"
               /\ \E p \in Procs : Leaves(p, "launch.launch")
       /\ \A p \in Procs :
            CloseEnds(p) =>
                IF calls'[p] = <<>> \/ calls'[p][1].res = "ok"
                THEN SessionState(browser', page') = "NoBrowser"
                ELSE SessionState(browser', page') = SessionState(browser, page)]_vars

\* A launch taken in BrowserOnly that ended in Ready, with a new browser and its page.
LaunchFromBrowserOnlyToReady ==
    /\ Done(1) /\ req[1].name = LaunchTool
    /\ SessionState(req[1].browser0, req[1].page0) = "BrowserOnly"
    /\ SessionState(browser, page) = "Ready"
    /\ browser # req[1].browser0

\* A launch call of the HTTP variant outside hosted mode is pending for p.
LocalLaunchPending(p) ==
    pc[p] = "launch.launch" /\ variant = "http" /\ nodeEnv # "production"

SandboxFlags == {"--no-sandbox", "--disable-setuid-sandbox"}

(* C17: in the HTTP variant outside hosted mode, the executable passed to   *)
(* the engine launch is the first path of the candidate list that exists,   *)
(* whichever candidates exist; when none exists no executable path is       *)
(* passed; the sandbox-disabling flags are passed in both cases.            *)
FirstExistingExecutable ==
    \A p \in Procs :
        LocalLaunchPending(p) =>
            LET o == Pending(p).opts
                found == {i \in 1..Len(ChromePaths) : ChromePaths[i] \in loc[p].existing}
            IN  /\ Pending(p).op = "launch"
                /\ found = {} => o.executablePath = ""
                /\ found # {} =>
                      \E i \in found :
                          /\ o.executablePath = ChromePaths[i]
                          /\ \A j \in found : i <= j
                /\ SandboxFlags \subseteq {o.args[k] : k \in 1..Len(o.args)}

\* The third and the fifth candidate exist, the first two do not: the third is passed.
ThirdCandidateChosen ==
    /\ LocalLaunchPending(1)
    /\ loc[1].existing = {ChromePaths[3], ChromePaths[5]}
    /\ Pending(1).opts.executablePath = ChromePaths[3]

\* The engine calls both variants make: the HTTP variant's discovery left out.
IsCommonCall(c) == c.op # "executablePath"
CommonCalls(cs) == SelectSeq(cs, IsCommonCall)

DiscoveryRejected(p) ==
    \E i \in 1..Len(calls[p]) : calls[p][i].op = "executablePath" /\ calls[p][i].res = "error"

Resolved(cs, op) == \E i \in 1..Len(cs) : cs[i].op = op /\ cs[i].res = "ok"
Rejected(cs, op) == \E i \in 1..Len(cs) : cs[i].op = op /\ cs[i].res = "error"

\* What the stdio launchBrowser answers, from its arguments and the outcomes of its
\* engine calls: close (if a browser was held), launch, newPage, in that order.
StdioLaunchContent(args, cs) ==
    IF Rejected(cs, "close") THEN ErrorEnvelope(EngineMessage("close"))
    ELSE IF ~args.present THEN ErrorEnvelope(ArgsTypeErrorMessage)
    ELSE IF Rejected(cs, "launch") THEN ErrorEnvelope(EngineMessage("launch"))
    ELSE IF Rejected(cs, "newPage") THEN ErrorEnvelope(EngineMessage("newPage"))
    ELSE <<TextItem(LaunchedText(args))>>

\* The session state the stdio launchBrowser is in, from the state it found and the
\* engine calls resolved so far.
StdioLaunchState(b0, g0, cs) ==
    SessionState(IF Resolved(cs, "launch") THEN 1 ELSE b0,
                 IF Resolved(cs, "newPage") THEN 1 ELSE g0)

(* C18: the two variants advertise the same eight descriptors, and a launch *)
(* invocation, the one method whose text differs between them, returns in   *)
(* both the envelope and passes through the session states that the stdio   *)
(* method gives for the same outcomes of close, launch and newPage.         *)
SameDispatcher ==
    /\ ListTools("stdio") = ListTools("http")
    /\ Len(ListTools(variant)) = 8
    /\ {ListTools(variant)[i].name : i \in 1..8} = ToolNames
    /\ \A p \in Procs :
          req[p].name = LaunchTool =>
              /\ SessionState(browser, page) =
                    StdioLaunchState(req[p].browser0, req[p].page0, CommonCalls(calls[p]))
              /\ Done(p) /\ ~DiscoveryRejected(p) =>
                    Content(p) = StdioLaunchContent(req[p].args, CommonCalls(calls[p]))

\* The hosted HTTP variant answering a launch without arguments over a held browser.
HostedLaunchWithoutArgs ==
    /\ variant = "http" /\ nodeEnv = "production"
    /\ Done(1) /\ req[1].name = LaunchTool /\ ~req[1].args.present
    /\ req[1].browser0 # 0
    /\ Len(calls[1]) = 2
    /\ Content(1) = ErrorEnvelope(ArgsTypeErrorMessage)

\* With both handles present, page g is a page of browser b and b is open.
Coherent(b, g, open) == b # 0 /\ g # 0 => pages[g] = b /\ b \in open

(* C19: whenever both handles are present, the page handle is a page of the *)
(* browser the browser handle refers to and that browser is open: every     *)
(* invocation that finds the session so and whose engine close does not     *)
(* reject answers with the session so, a launch that fails at the engine    *)
(* launch or at the page creation included.                                 *)
PageOfOpenBrowser ==
    \A p \in Procs :
        Done(p) /\ ArgsValid(req[p].name, req[p].args)
            /\ Coherent(req[p].browser0, req[p].page0, req[p].open0)
            /\ ~Rejected(calls[p], "close") =>
                Coherent(browser, page, OpenBrowsers)

(* C20: under the HTTP transport, however two concurrent invocations        *)
(* interleave at their engine calls, a page handle is present only if a     *)
(* browser handle is present.                                               *)
NoPageWithoutBrowserUnderRace == SessionState(browser, page) # "PageOnly"

\* Invocation p is a launch that has returned, every engine call of it resolved, and
\* it began in a session holding every open browser.
LaunchReturned(p) ==
    /\ Done(p) /\ req[p].name = LaunchTool
    /\ AllResolved(calls[p])
    /\ req[p].open0 \subseteq {req[p].browser0}

(* C21: under the HTTP transport, once two launch invocations that were in  *)
(* flight together have both returned, every engine call resolving, at most *)
(* one browser is open and it is the one the browser handle refers to.      *)
NoBrowserLeakedByLaunches ==
    (\A p \in Procs : LaunchReturned(p)) =>
        /\ Cardinality(OpenBrowsers) <= 1
        /\ OpenBrowsers \subseteq {browser}

\* The options of the puppeteer.launch call that invocation p made.
LaunchedOptions(p) ==
    LET i == CHOOSE i \in 1..Len(calls[p]) : calls[p][i].op = "launch"
    IN  calls[p][i].opts

\* Invocation p is a launch with headless true, false or omitted that returned its
\* success confirmation.
LaunchConfirmed(p) ==
    /\ Done(p) /\ req[p].name = LaunchTool
    /\ req[p].args.present
    /\ req[p].args.headless \in {Undef, Bool(TRUE), Bool(FALSE)}
    /\ Success(Content(p))

(* C22: the mode named in launch's success confirmation is the mode passed  *)
(* to the engine, for headless true, false and omitted: the confirmation    *)
(* says headless exactly when the engine was given headless true, says      *)
(* headed otherwise, and with headless omitted the engine is given true.    *)
ConfirmationNamesLaunchedMode ==
    \A p \in SeqProcs :
        LaunchConfirmed(p) =>
            /\ Content(p)[1].text =
                   (IF LaunchedOptions(p).headless = Bool(TRUE)
                    THEN "Browser launched successfully in headless mode"
                    ELSE "Browser launched successfully in headed mode")
            /\ req[p].args.headless = Undef => LaunchedOptions(p).headless = Bool(TRUE)

====
